---- MODULE Spec2Model ----
(***************************************************************************)
(* Circuit equivalence by discrete quadratic models.                       *)
(*                                                                         *)
(* The module models equivalence.py (create_dqm, find_isomorphism,         *)
(* find_equivalence), the earlier revision isomorphism.py (create_dqm,     *)
(* find_isomorphism) and circuits.py (_parse_netlist, _create_graph,       *)
(* Circuit).  The sampler (LeapHybridDQMSampler) is the environment: it    *)
(* either fails or returns a sample set, whose energies are those of the   *)
(* model it was handed.                                                    *)
(*                                                                         *)
(* All biases of the program are the floats -1.0, 1.0, 2.0 and the node    *)
(* count, so every energy is an integer-valued float and is modelled as an *)
(* integer; np.isclose(e, 0.0) is then e = 0.                              *)
(***************************************************************************)
EXTENDS Integers, Sequences, FiniteSets, TLC

\* ------------------------------------------------------------------ bounds

\* Largest node count of the graphs handed to create_dqm directly.
MaxN == 3
\* Largest node count of the circuits handed to find_isomorphism / find_equivalence.
MaxQueryN == 2
\* Longest sample set a heuristic sampler returns.
MaxSamples == 2
\* Most lines of a netlist file.
MaxLines == 2
\* Most whitespace-separated fields of a line.
MaxFields == 5

\* --------------------------------------------------------- program constants

\* equivalence.py: B = 2.0
B == 2
\* isomorphism.py: A = 1.0
A == 1

\* ------------------------------------------------------------------ graphs

\* A node name is <<kind, k>>: <<"nMOS", 1>> stands for a name such as "nMOS1",
\* <<"pMOS", 2>> for "pMOS2", <<"net", 3>> for a name with neither substring.
Kinds == {"nMOS", "pMOS", "net"}

\* 'nMOS' in name
HasNMOS(name) == name[1] = "nMOS"

\* 'pMOS' in name
HasPMOS(name) == name[1] = "pMOS"

Range(s) == {s[i] : i \in DOMAIN s}

\* The unordered pairs of distinct elements of S
\* (itertools.combinations(S, 2), read as undirected edges).
combinations2(S) == {e \in SUBSET S : Cardinality(e) = 2}

\* A networkx.Graph: nodes in insertion order (list(G.nodes)), and undirected
\* edges without self-loops.
Graph(nodes, edges) == [nodes |-> nodes, edges |-> edges]

number_of_nodes(G) == Len(G.nodes)

\* G.nodes read as a set.
Nodes(G) == Range(G.nodes)

\* The graphs on n nodes whose k-th node is <<kinds[k], k>>.
GraphsOn(kinds) ==
    LET nodes == [k \in DOMAIN kinds |-> <<kinds[k], k>>]
    IN  {Graph(nodes, E) : E \in SUBSET combinations2(Range(nodes))}

\* Graphs of 1..max nodes, every node a plain net.
PlainGraphs(max) ==
    UNION {GraphsOn([k \in 1..n |-> "net"]) : n \in 1..max}

\* Graphs of 1..max nodes with every choice of node kinds.
Circuits(max) ==
    UNION {UNION {GraphsOn(kinds) : kinds \in [1..n -> Kinds]} : n \in 1..max}

\* ------------------------------------------------------------------ the DQM

\* The variable of a G1 node: dimod numbers the variables in the order of
\* add_variable, which is the order of G1.nodes.
var(G1, node) == CHOOSE a \in DOMAIN G1.nodes : G1.nodes[a] = node

\* The key of a quadratic bias: dimod stores the interaction of case i of variable
\* a and case j of variable b once, whichever way round it is named.
Key(a, i, b, j) == IF a < b THEN <<a, i, b, j>> ELSE <<b, j, a, i>>

\* The quadratic biases of a model of n variables with n cases each, held as
\* q[a][i][b][j] for variables a, b and cases i, j; 0 is an interaction never set.
NoBiases(n) ==
    [a \in 1..n |-> [i \in 0..(n-1) |-> [b \in 1..n |-> [j \in 0..(n-1) |-> 0]]]]

\* dqm.set_quadratic_case(..., bias) for every key of `keys`: the bias replaces
\* whatever the interaction held, read either way round.
set_quadratic_case(q, keys, bias) ==
    [a \in DOMAIN q |-> [i \in DOMAIN q[a] |-> [b \in DOMAIN q[a][i] |->
        [j \in DOMAIN q[a][i][b] |->
            IF Key(a, i, b, j) \in keys THEN bias ELSE q[a][i][b][j]]]]]

\* dqm.get_quadratic_case
get_quadratic_case(q, a, i, b, j) == q[a][i][b][j]

\* The uniqueness loop with node2 taken from G1_nodes[ivar+2:].
UniquenessKeysShort(G1, n) ==
    {Key(x[1], x[3], x[2], x[3]) :
        x \in {y \in (1..n) \X (1..n) \X (0..(n-1)) : y[1] + 1 < y[2]}}

\* equivalence.py 70-73 / isomorphism.py 48-52: for every target and every pair of
\* distinct G1 nodes (node2 in G1_nodes[ivar+1:]), the interaction of both nodes
\* choosing that target.
UniquenessKeys(G1, n) ==
    {Key(x[1], x[3], x[2], x[3]) :
        x \in {y \in (1..n) \X (1..n) \X (0..(n-1)) : y[1] < y[2]}}

\* The loop over G1.edges without its second set_quadratic_case (the edge mapped
\* onto the pair the other way round).
G1EdgeKeysOneWay(G1, G2, n) ==
    {Key(x[1], x[3], x[2], x[4]) :
        x \in {y \in (1..n) \X (1..n) \X (0..(n-1)) \X (0..(n-1)) :
                /\ y[1] < y[2]
                /\ {G1.nodes[y[1]], G1.nodes[y[2]]} \in G1.edges
                /\ y[3] < y[4]
                /\ {G2.nodes[y[3] + 1], G2.nodes[y[4] + 1]} \notin G2.edges}}

\* equivalence.py 84-94 / isomorphism.py 26-33: for every edge e1 of G1 and every
\* pair i < j of target indices that is not an edge of G2, both ways of mapping the
\* edge onto the pair.
G1EdgeKeys(G1, G2, n) ==
    UNION {
        {Key(x[1], x[3], x[2], x[4]), Key(x[1], x[4], x[2], x[3])} :
            x \in {y \in (1..n) \X (1..n) \X (0..(n-1)) \X (0..(n-1)) :
                    /\ y[1] < y[2]
                    /\ {G1.nodes[y[1]], G1.nodes[y[2]]} \in G1.edges
                    /\ y[3] < y[4]
                    /\ {G2.nodes[y[3] + 1], G2.nodes[y[4] + 1]} \notin G2.edges}}

\* G2_nodes.index(node)
index(nodes, node) == (CHOOSE k \in DOMAIN nodes : nodes[k] = node) - 1

\* create_dqm without its loop over G2.edges.
G2EdgeKeysNone(G1, G2, n) == {}

\* equivalence.py 97-103 / isomorphism.py 36-42: for every edge e2 of G2 and every
\* pair e1 of G1 nodes that is not an edge of G1, both ways of mapping the pair onto
\* the edge.
G2EdgeKeys(G1, G2, n) ==
    UNION {
        {Key(var(G1, e1[1]), index(G2.nodes, e2[1]), var(G1, e1[2]), index(G2.nodes, e2[2])),
         Key(var(G1, e1[1]), index(G2.nodes, e2[2]), var(G1, e1[2]), index(G2.nodes, e2[1]))} :
            <<e2, e1>> \in
                {y \in (Nodes(G2) \X Nodes(G2)) \X (Nodes(G1) \X Nodes(G1)) :
                    /\ index(G2.nodes, y[1][1]) < index(G2.nodes, y[1][2])
                    /\ {y[1][1], y[1][2]} \in G2.edges
                    /\ var(G1, y[2][1]) < var(G1, y[2][2])
                    /\ {y[2][1], y[2][2]} \notin G1.edges}}

\* add_variable handing every variable one case too few.
num_cases_short(G1, n) == [node \in Nodes(G1) |-> n - 1]

\* dqm.add_variable(n, node) for every node of G1 (equivalence.py 59-62): the
\* number of cases of each variable.
num_cases(G1, n) == [node \in Nodes(G1) |-> n]

\* dqm.set_linear(node, np.repeat(bias, n)) for every node of G1.
set_linear(G1, n, bias) == [node \in Nodes(G1) |-> [i \in 0..(n-1) |-> bias]]

\* create_dqm setting no offset, as isomorphism.py does.
OffsetNone(n) == 0

\* equivalence.py 57: dqm.offset = n
Offset(n) == n

\* What a raised exception leaves in place of a value.
Raise(exc) == [raised |-> exc]

Raised(x) == "raised" \in DOMAIN x

\* equivalence.py create_dqm: the uniqueness biases are set first, then the edge
\* biases of both directions.
create_dqm(G1, G2) ==
    LET n == number_of_nodes(G1) IN
    IF n # number_of_nodes(G2) THEN Raise("ValueError")
    ELSE
        LET qA  == set_quadratic_case(NoBiases(n), UniquenessKeys(G1, n), 2)
            qB1 == set_quadratic_case(qA, G1EdgeKeys(G1, G2, n), B)
            qB2 == set_quadratic_case(qB1, G2EdgeKeys(G1, G2, n), B)
        IN  [offset    |-> Offset(n),
             variables |-> G1.nodes,
             num_cases |-> num_cases(G1, n),
             linear    |-> set_linear(G1, n, -1),
             quadratic |-> qB2]

\* isomorphism.py create_dqm: the edge biases (weight 1) are set first, then 2A
\* is added to what each uniqueness interaction holds; no offset is set.
iso_create_dqm(G1, G2) ==
    LET n == number_of_nodes(G1) IN
    IF n # number_of_nodes(G2) THEN Raise("ValueError")
    ELSE
        LET qB1 == set_quadratic_case(NoBiases(n), G1EdgeKeys(G1, G2, n), 1)
            qB2 == set_quadratic_case(qB1, G2EdgeKeys(G1, G2, n), 1)
            ku  == UniquenessKeys(G1, n)
            qA  == [a \in 1..n |-> [i \in 0..(n-1) |-> [b \in 1..n |-> [j \in 0..(n-1) |->
                       IF Key(a, i, b, j) \in ku
                       THEN get_quadratic_case(qB2, a, i, b, j) + 2 * A
                       ELSE qB2[a][i][b][j]]]]]
        IN  [offset    |-> 0,
             variables |-> G1.nodes,
             num_cases |-> num_cases(G1, n),
             linear    |-> set_linear(G1, n, -A),
             quadratic |-> qA]

\* The assignments of a model: one case per variable.
Assignments(dqm) ==
    LET V   == Range(dqm.variables)
        top == CHOOSE m \in {dqm.num_cases[v] : v \in V} :
                   \A v \in V : dqm.num_cases[v] <= m
    IN  {s \in [V -> 0..(top - 1)] : \A v \in V : s[v] < dqm.num_cases[v]}

RECURSIVE SumTo(_, _)
\* f[1] + ... + f[k]
SumTo(f, k) == IF k = 0 THEN 0 ELSE f[k] + SumTo(f, k - 1)

\* The energy the sampler reports for a sample: the offset, plus the linear bias
\* of every chosen case, plus the quadratic bias of every pair of chosen cases.
Energy(dqm, s) ==
    LET vs  == dqm.variables
        n   == Len(vs)
        lin == [a \in 1..n |-> dqm.linear[vs[a]][s[vs[a]]]]
        row == [b \in 1..n |->
                   SumTo([a \in 1..(b - 1) |->
                             get_quadratic_case(dqm.quadratic,
                                                a, s[vs[a]], b, s[vs[b]])],
                         b - 1)]
    IN  dqm.offset + SumTo(lin, n) + SumTo(row, n)

\* Whether a model was constructed (dimod.DiscreteQuadraticModel(), equivalence.py
\* 51 / isomorphism.py 20): the size check of lines 44-46 comes first.
ModelsConstructed(G1, G2) ==
    IF number_of_nodes(G1) # number_of_nodes(G2) THEN 0 ELSE 1

\* ------------------------------------------------- reading the sample set

\* np.isclose(energy, 0.0): the energies are integer-valued.
isclose0(energy) == energy = 0

\* {k: G2_nodes[i] for k, i in sample.items()}
translate(sample, G2) == [k \in DOMAIN sample |-> G2.nodes[sample[k] + 1]]

\* equivalence.py 166-170: the transistor types of a mapping match.
valid(mapping) ==
    \A n1 \in DOMAIN mapping :
        ~(\/ HasNMOS(n1) /\ ~HasNMOS(mapping[n1])
          \/ HasPMOS(n1) /\ ~HasPMOS(mapping[n1]))

\* What a call leaves to its caller.
ReturnNone == [kind |-> "None"]

ReturnMapping(m) == [kind |-> "mapping", mapping |-> m]

ReturnDqm == [kind |-> "dqm"]

Raises(exc) == [kind |-> "raise", exc |-> exc]

Pending == [kind |-> "pending"]

\* The queries without their early return.
size_mismatch_unchecked(G1, G2) == FALSE

\* equivalence.py 120 / 151, isomorphism.py 64: the guard of the early return.
size_mismatch(G1, G2) == number_of_nodes(G1) # number_of_nodes(G2)

\* equivalence.py 126-132: the best sample decides.
find_isomorphism_result(best, G2) ==
    IF isclose0(best.energy)
    THEN ReturnMapping(translate(best.sample, G2))
    ELSE ReturnNone

\* isomorphism.py 70-76: best.energy == -G1.number_of_nodes()
iso_find_isomorphism_result(best, G1, G2) ==
    IF best.energy = -number_of_nodes(G1)
    THEN ReturnMapping(translate(best.sample, G2))
    ELSE ReturnNone

\* The loop body returning None at the first sample that fails the type check.
scan_body_give_up(rec, G2) ==
    IF isclose0(rec.energy) /\ valid(translate(rec.sample, G2))
    THEN ReturnMapping(translate(rec.sample, G2))
    ELSE ReturnNone

\* The loop body going on past a sample above the optimal energy.
scan_body_skip(rec, G2) ==
    IF isclose0(rec.energy) /\ valid(translate(rec.sample, G2))
    THEN ReturnMapping(translate(rec.sample, G2))
    ELSE Pending

\* equivalence.py 163-175, one pass of the loop over results.data(): the value
\* returned, or Pending when the loop goes on to the next sample.
scan_body(rec, G2) ==
    IF isclose0(rec.energy)
    THEN IF valid(translate(rec.sample, G2))
         THEN ReturnMapping(translate(rec.sample, G2))
         ELSE Pending
    ELSE ReturnNone

\* A query that catches the sampler's exception and returns None.
on_solver_failure_swallowed(exc) == ReturnNone

\* equivalence.py 123-124 / 154-155: the call of the sampler stands in no try
\* block, so what it raises leaves the function as it is.
on_solver_failure(exc) == Raises(exc)

\* What the sampler may raise.
SolverErrors == {"SolverFailureError", "Timeout"}

\* ------------------------------------------------------------------ state

VARIABLES
    op,         \* the function called: "none" before the call
    pc,         \* where the call stands
    G1, G2,     \* its arguments (the graphs; a circuit's graph carries the names)
    dqm,        \* the model built
    models,     \* how many models were constructed
    solves,     \* how many times the sampler was called
    reply,      \* what the sampler answered
    first,      \* results.first
    delivered,  \* the samples results.data() has yielded so far, in order
    exhausted,  \* results.data() has signalled its end
    outcome,    \* what the call returned or raised
    lines,      \* the lines of the netlist file read so far
    netlist,    \* the Transistor records parsed so far
    circuit     \* Circuit.G

parseVars == <<lines, netlist, circuit>>

vars == <<op, pc, G1, G2, dqm, models, solves, reply, first, delivered,
          exhausted, outcome, lines, netlist, circuit>>

NoGraph == Graph(<<>>, {})

NoDqm == [absent |-> TRUE]

NoSample == [absent |-> TRUE]

\* Nothing was called yet; g1 and g2 are the graphs at hand.
Start(g1, g2) ==
    /\ op = "none"
    /\ pc = "idle"
    /\ G1 = g1
    /\ G2 = g2
    /\ dqm = NoDqm
    /\ models = 0
    /\ solves = 0
    /\ reply = [kind |-> "none"]
    /\ first = NoSample
    /\ delivered = <<>>
    /\ exhausted = FALSE
    /\ outcome = Pending
    /\ lines = <<>>
    /\ netlist = <<>>
    /\ circuit = NoGraph

Init == Start(NoGraph, NoGraph)

\* Two graphs of up to MaxN nodes are at hand.
InitDqm == \E g1, g2 \in PlainGraphs(MaxN) : Start(g1, g2)

\* The graphs a call may be handed: those prepared, or any of S.
Arg(G, S) == IF G = NoGraph THEN S ELSE {G}

\* A direct call of create_dqm of either module.
CallCreate(name, g1, g2, d) ==
    /\ op' = name
    /\ G1' = g1
    /\ G2' = g2
    /\ dqm' = d
    /\ models' = models + ModelsConstructed(g1, g2)
    /\ outcome' = IF Raised(d) THEN Raises(d.raised) ELSE ReturnDqm
    /\ pc' = IF Raised(d) THEN "done" ELSE "built"
    /\ UNCHANGED <<solves, reply, first, delivered, exhausted>>
    /\ UNCHANGED parseVars

Call_create_dqm ==
    /\ pc = "idle"
    /\ \E g1 \in Arg(G1, PlainGraphs(MaxN)), g2 \in Arg(G2, PlainGraphs(MaxN)) :
            CallCreate("create_dqm", g1, g2, create_dqm(g1, g2))

Call_iso_create_dqm ==
    /\ pc = "idle"
    /\ \E g1 \in Arg(G1, PlainGraphs(MaxN)), g2 \in Arg(G2, PlainGraphs(MaxN)) :
            CallCreate("iso_create_dqm", g1, g2, iso_create_dqm(g1, g2))

\* find_isomorphism / find_equivalence up to the call of the sampler:
\* the size check, create_dqm, sampler.sample_dqm(dqm).
CallFind(name, g1, g2, d) ==
    /\ op' = name
    /\ G1' = g1
    /\ G2' = g2
    /\ UNCHANGED <<reply, first, delivered, exhausted>>
    /\ UNCHANGED parseVars
    /\ IF size_mismatch(g1, g2)
       THEN /\ outcome' = ReturnNone
            /\ pc' = "done"
            /\ UNCHANGED <<dqm, models, solves>>
       ELSE /\ dqm' = d
            /\ models' = models + ModelsConstructed(g1, g2)
            /\ IF Raised(d)
               THEN /\ outcome' = Raises(d.raised)
                    /\ pc' = "done"
                    /\ UNCHANGED solves
               ELSE /\ solves' = solves + 1
                    /\ pc' = "solving"
                    /\ UNCHANGED outcome

Call_find_isomorphism ==
    /\ pc = "idle"
    /\ \E g1, g2 \in PlainGraphs(MaxQueryN) :
            CallFind("find_isomorphism", g1, g2, create_dqm(g1, g2))

Call_iso_find_isomorphism ==
    /\ pc = "idle"
    /\ \E g1, g2 \in PlainGraphs(MaxQueryN) :
            CallFind("iso_find_isomorphism", g1, g2, iso_create_dqm(g1, g2))

Call_find_equivalence ==
    /\ pc = "idle"
    /\ \E g1, g2 \in Circuits(MaxQueryN) :
            CallFind("find_equivalence", g1, g2, create_dqm(g1, g2))

\* The sampler fails: the exception leaves the function.
SolverFails ==
    /\ pc = "solving"
    /\ \E exc \in SolverErrors :
        /\ reply' = [kind |-> "failure", exc |-> exc]
        /\ outcome' = on_solver_failure(exc)
    /\ pc' = "done"
    /\ UNCHANGED <<op, G1, G2, dqm, models, solves, first, delivered, exhausted>>
    /\ UNCHANGED parseVars

\* The lowest energy of the model.
MinEnergy(d) ==
    LET Es == {Energy(d, s) : s \in Assignments(d)}
    IN  CHOOSE e \in Es : \A f \in Es : e <= f

Sample(d, s) == [sample |-> s, energy |-> Energy(d, s)]

\* The sampler answers with a sample set.  A heuristic sampler returns 1..MaxSamples
\* samples of its choice; an exact one returns every assignment.  The program reads
\* the set in ascending energy (results.first, results.data()), ties in any order:
\* results.first is any sample, the lowest of all for an exact sampler.  What
\* follows in the function runs up to its return or to its loop.
SolverReturns ==
    /\ pc = "solving"
    /\ LET lowest == MinEnergy(dqm) IN
       \E exact \in BOOLEAN, s \in Assignments(dqm) :
        LET best == Sample(dqm, s) IN
        /\ exact => best.energy = lowest
        /\ reply' = [kind |-> "sampleset", exact |-> exact]
        /\ first' = best
        /\ CASE op = "find_isomorphism" ->
                  /\ outcome' = find_isomorphism_result(best, G2)
                  /\ pc' = "done"
             [] op = "iso_find_isomorphism" ->
                  /\ outcome' = iso_find_isomorphism_result(best, G1, G2)
                  /\ pc' = "done"
             [] op = "find_equivalence" ->
                  IF ~isclose0(best.energy)
                  THEN /\ outcome' = ReturnNone
                       /\ pc' = "done"
                  ELSE /\ outcome' = Pending
                       /\ pc' = "scan"
    /\ UNCHANGED <<op, G1, G2, dqm, models, solves, delivered, exhausted>>
    /\ UNCHANGED parseVars

DeliveredSamples == {delivered[i].sample : i \in DOMAIN delivered}

\* Whether rec may be the next sample of results.data(): the first is
\* results.first; energies never descend; an exact sampler's set holds every
\* assignment once, so the next is a lowest one not yet yielded.
IsNext(rec) ==
    /\ Len(delivered) = 0 => rec = first
    /\ Len(delivered) > 0 => rec.energy >= delivered[Len(delivered)].energy
    /\ IF reply.exact
       THEN /\ rec.sample \notin DeliveredSamples
            /\ \A s \in Assignments(dqm) \ DeliveredSamples :
                   rec.energy <= Energy(dqm, s)
       ELSE Len(delivered) < MaxSamples

\* Whether results.data() may end here.
AtEnd ==
    /\ Len(delivered) > 0
    /\ reply.exact => DeliveredSamples = Assignments(dqm)

\* One pass of the loop of find_equivalence (equivalence.py 162-175).
ScanNext ==
    /\ pc = "scan"
    /\ \E s \in Assignments(dqm) :
        LET rec == Sample(dqm, s) IN
        /\ IsNext(rec)
        /\ delivered' = Append(delivered, rec)
        /\ outcome' = scan_body(rec, G2)
        /\ pc' = IF scan_body(rec, G2) = Pending THEN "scan" ELSE "done"
    /\ UNCHANGED <<op, G1, G2, dqm, models, solves, reply, first, exhausted>>
    /\ UNCHANGED parseVars

\* The loop ends with the sample set (equivalence.py 177).
ScanEnd ==
    /\ pc = "scan"
    /\ AtEnd
    /\ exhausted' = TRUE
    /\ outcome' = ReturnNone
    /\ pc' = "done"
    /\ UNCHANGED <<op, G1, G2, dqm, models, solves, reply, first, delivered>>
    /\ UNCHANGED parseVars

\* The queries: create_dqm, find_isomorphism and find_equivalence with the sampler.
Next ==
    \/ Call_create_dqm
    \/ Call_iso_create_dqm
    \/ Call_find_isomorphism
    \/ Call_iso_find_isomorphism
    \/ Call_find_equivalence
    \/ SolverFails
    \/ SolverReturns
    \/ ScanNext
    \/ ScanEnd

Spec == Init /\ [][Next]_vars

\* The models create_dqm builds.
NextDqm ==
    \/ Call_create_dqm
    \/ Call_iso_create_dqm

SpecDqm == InitDqm /\ [][NextDqm]_vars

\* Two graphs of the same node count, up to MaxN, are at hand: the inputs for
\* which create_dqm builds a model.
InitEqual ==
    \E n \in 1..MaxN :
        \E g1, g2 \in GraphsOn([k \in 1..n |-> "net"]) : Start(g1, g2)

\* The models create_dqm builds for graphs of equal node count.
SpecEqual == InitEqual /\ [][NextDqm]_vars

\* ---------------------------------------------------------------- circuits.py

\* The fields a line may hold: a device name, a net name, a device type.
Tokens == {"nMOS1", "out", "nmos"}

\* A line of the file, as its whitespace-separated fields (line.split()).
Lines == UNION {[1..k -> Tokens] : k \in 0..MaxFields}

\* 'nmos' in line or 'pmos' in line: of the tokens, only the type holds either.
mentions_type(line) == \E i \in DOMAIN line : line[i] \in {"nmos", "pmos"}

\* values[:4]
first4(values) == SubSeq(values, 1, IF Len(values) < 4 THEN Len(values) ELSE 4)

\* Transistor(*values): the namedtuple takes exactly the four fields
\* name, drain, gate, source, and raises TypeError when handed fewer.
Transistor(values) ==
    IF Len(values) # 4 THEN Raise("TypeError")
    ELSE [name |-> values[1], drain |-> values[2], gate |-> values[3],
          source |-> values[4]]

\* nx.Graph.add_edge: both ends become nodes, in this order, when new.
add_node(nodes, u) == IF u \in Range(nodes) THEN nodes ELSE Append(nodes, u)

add_edge(G, u, v) == Graph(add_node(add_node(G.nodes, u), v), G.edges \cup {{u, v}})

RECURSIVE add_transistors(_, _)
\* _create_graph's loop: the three edges of every transistor of the netlist.
add_transistors(G, ts) ==
    IF ts = <<>> THEN G
    ELSE LET t == Head(ts) IN
         add_transistors(
             add_edge(add_edge(add_edge(G, t.name, t.drain), t.name, t.gate),
                      t.name, t.source),
             Tail(ts))

_create_graph(ts) == add_transistors(NoGraph, ts)

\* One pass of the loop of _parse_netlist (circuits.py 41-45) inside
\* Circuit.__init__: the line is skipped, or yields a Transistor, or the
\* construction of the Transistor raises and the exception leaves Circuit().
ReadLine ==
    /\ pc = "idle" \/ (pc = "parsing" /\ op = "Circuit")
    /\ Len(lines) < MaxLines
    /\ \E line \in Lines :
        /\ lines' = Append(lines, line)
        /\ IF ~mentions_type(line)
           THEN /\ pc' = "parsing"
                /\ UNCHANGED <<netlist, outcome>>
           ELSE LET t == Transistor(first4(line)) IN
                IF Raised(t)
                THEN /\ outcome' = Raises(t.raised)
                     /\ pc' = "done"
                     /\ UNCHANGED netlist
                ELSE /\ netlist' = Append(netlist, t)
                     /\ pc' = "parsing"
                     /\ UNCHANGED outcome
    /\ op' = "Circuit"
    /\ UNCHANGED <<G1, G2, dqm, models, solves, reply, first, delivered,
                   exhausted, circuit>>

\* The file ends: _parse_netlist returns and _create_graph builds Circuit.G
\* (circuits.py 46, 31).
EndOfFile ==
    /\ pc = "idle" \/ (pc = "parsing" /\ op = "Circuit")
    /\ op' = "Circuit"
    /\ circuit' = _create_graph(netlist)
    /\ outcome' = [kind |-> "Circuit"]
    /\ pc' = "done"
    /\ UNCHANGED <<G1, G2, dqm, models, solves, reply, first, delivered,
                   exhausted, lines, netlist>>

\* Circuit(netlist_file).
NextParse ==
    \/ ReadLine
    \/ EndOfFile

SpecParse == Init /\ [][NextParse]_vars

\* ------------------------------------------------------------ what is claimed

\* f is a bijection of G1's nodes onto G2's that maps every edge of G1 to an edge
\* of G2 and every edge of G2 back to an edge of G1.
IsIsomorphism(f, g1, g2) ==
    /\ DOMAIN f = Nodes(g1)
    /\ \A u \in Nodes(g1) : f[u] \in Nodes(g2)
    /\ \A u, v \in Nodes(g1) : u # v => f[u] # f[v]
    /\ \A w \in Nodes(g2) : \E u \in Nodes(g1) : f[u] = w
    /\ \A e \in combinations2(Nodes(g1)) :
           (e \in g1.edges) <=> ({f[u] : u \in e} \in g2.edges)

Isomorphic(g1, g2) ==
    /\ number_of_nodes(g1) = number_of_nodes(g2)
    /\ \E f \in [Nodes(g1) -> Nodes(g2)] : IsIsomorphism(f, g1, g2)

\* The energy of a bijection without edge penalty: offset - A*n.
Target == dqm.offset - A * number_of_nodes(G1)

Creates == {"create_dqm", "iso_create_dqm"}

\* C1: when G1 and G2 (equal node counts) are not isomorphic, the energy of every
\* assignment, injective or not, is strictly above offset - A*n (above 0 for
\* equivalence.py).
C1_NonIsomorphicAboveTarget ==
    (pc = "built" /\ op \in Creates) =>
        /\ op = "create_dqm" => Target = 0
        /\ ~Isomorphic(G1, G2) =>
               \A s \in Assignments(dqm) : Energy(dqm, s) > Target

C1_Witness ==
    /\ pc = "built"
    /\ op = "create_dqm"
    /\ number_of_nodes(G1) = 3
    /\ ~Isomorphic(G1, G2)
    /\ \E s \in Assignments(dqm) :
           /\ Cardinality({s[v] : v \in DOMAIN s}) = 3
           /\ Energy(dqm, s) = Target + B

\* C2: when G1 and G2 are isomorphic, the lowest energy of the model is
\* offset - A*n, and every assignment at that energy is a bijection that maps the
\* edges of G1 to edges of G2 and the edges of G2 back to edges of G1.
C2_IsomorphicMinimum ==
    (pc = "built" /\ op \in Creates /\ Isomorphic(G1, G2)) =>
        /\ MinEnergy(dqm) = Target
        /\ \A s \in Assignments(dqm) :
               Energy(dqm, s) = Target => IsIsomorphism(translate(s, G2), G1, G2)

C2_Witness ==
    /\ pc = "built"
    /\ op = "create_dqm"
    /\ number_of_nodes(G1) = 3
    /\ Cardinality(G1.edges) = 2
    /\ G1.edges # G2.edges
    /\ \E s \in Assignments(dqm) :
           /\ Energy(dqm, s) = Target
           /\ IsIsomorphism(translate(s, G2), G1, G2)

\* C8: the model built for graphs of n nodes each has exactly n variables, one per
\* node of G1, and every variable has exactly the n cases 0..n-1.
C8_VariablesAndCases ==
    (~Raised(dqm) /\ dqm # NoDqm) =>
        LET n == number_of_nodes(G2) IN
        /\ Len(dqm.variables) = n
        /\ Range(dqm.variables) = Nodes(G1)
        /\ Cardinality(Range(dqm.variables)) = n
        /\ \A v \in Range(dqm.variables) :
               /\ dqm.num_cases[v] = n
               /\ DOMAIN dqm.linear[v] = 0..(n - 1)

C8_Witness ==
    /\ pc = "built"
    /\ op = "create_dqm"
    /\ number_of_nodes(G1) = 3
    /\ Len(dqm.variables) = 3

Finds == {"find_isomorphism", "iso_find_isomorphism", "find_equivalence"}

\* The category of a node: nMOS, pMOS or neither.
Category(name) ==
    IF HasNMOS(name) THEN "nMOS" ELSE IF HasPMOS(name) THEN "pMOS" ELSE "non-transistor"

\* f is an isomorphism under which every matched pair has the same category.
IsEquivalence(f, g1, g2) ==
    /\ IsIsomorphism(f, g1, g2)
    /\ \A u \in DOMAIN f : Category(u) = Category(f[u])

Equivalent(g1, g2) ==
    /\ number_of_nodes(g1) = number_of_nodes(g2)
    /\ \E f \in [Nodes(g1) -> Nodes(g2)] : IsEquivalence(f, g1, g2)

\* C3: every mapping find_equivalence returns matches categories on every mapped
\* pair (so isomorphic graphs with no category-matching isomorphism yield None
\* from find_equivalence).
C3_MappedCategoriesEqual ==
    (op = "find_equivalence" /\ outcome.kind = "mapping") =>
        \A n1 \in DOMAIN outcome.mapping :
            Category(n1) = Category(outcome.mapping[n1])

\* C4: with an exact sampler (every assignment, ascending energy), find_equivalence
\* returns a mapping whenever some isomorphism of the two graphs matches the
\* categories of every pair.
C4_ExactFindsEquivalence ==
    (/\ op = "find_equivalence"
     /\ pc = "done"
     /\ reply.kind = "sampleset"
     /\ reply.exact
     /\ Equivalent(G1, G2)) => outcome.kind = "mapping"

C4_Witness ==
    /\ op = "find_equivalence"
    /\ pc = "done"
    /\ reply.kind = "sampleset"
    /\ reply.exact
    /\ Equivalent(G1, G2)
    /\ Len(delivered) = 2
    /\ ~valid(translate(delivered[1].sample, G2))
    /\ outcome.kind = "mapping"
    /\ IsEquivalence(outcome.mapping, G1, G2)

\* C5: for graphs of equal node count, find_isomorphism (of either module) returns
\* a mapping exactly when the energy of the sampler's first sample equals
\* offset - A*n of the model its module's create_dqm built; the mapping then has one
\* entry per G1 node, the G2 node at the sample's case index; otherwise the result
\* is None.
C5_MappingIffTarget ==
    (/\ op \in {"find_isomorphism", "iso_find_isomorphism"}
     /\ pc = "done"
     /\ reply.kind = "sampleset") =>
        IF first.energy = Target
        THEN /\ outcome.kind = "mapping"
             /\ DOMAIN outcome.mapping = Nodes(G1)
             /\ \A k \in Nodes(G1) :
                    \E i \in 0..(number_of_nodes(G2) - 1) :
                        /\ first.sample[k] = i
                        /\ outcome.mapping[k] = G2.nodes[i + 1]
        ELSE outcome = ReturnNone

C5_Witness ==
    /\ op = "find_isomorphism"
    /\ pc = "done"
    /\ reply.kind = "sampleset"
    /\ number_of_nodes(G1) = 2
    /\ first.energy = Target
    /\ outcome.kind = "mapping"
    /\ outcome.mapping[G1.nodes[1]] = G2.nodes[2]

\* C6: with unequal node counts, find_isomorphism and find_equivalence return None
\* having built no model and called no sampler, and create_dqm raises ValueError
\* having constructed no model.
C6_SizeMismatchEarly ==
    (op # "none" /\ number_of_nodes(G1) # number_of_nodes(G2)) =>
        /\ pc = "done"
        /\ models = 0
        /\ solves = 0
        /\ op \in Finds => outcome = ReturnNone /\ dqm = NoDqm
        /\ op \in Creates => outcome = Raises("ValueError")

C6_Witness ==
    /\ op = "find_equivalence"
    /\ number_of_nodes(G1) = 1
    /\ number_of_nodes(G2) = 2
    /\ pc = "done"
    /\ outcome = ReturnNone

\* C7: with equal node counts, a query issues exactly one solve request; when that
\* request fails, the failure reaches the caller unchanged: the query does not
\* return None and asks no second time.
C7_OneSolveFailurePropagates ==
    (op \in Finds /\ number_of_nodes(G1) = number_of_nodes(G2)) =>
        /\ solves = 1
        /\ models = 1
        /\ reply.kind = "failure" =>
               /\ pc = "done"
               /\ outcome = Raises(reply.exc)

C7_Witness ==
    /\ op = "find_equivalence"
    /\ pc = "done"
    /\ reply.kind = "failure"
    /\ reply.exc = "Timeout"
    /\ outcome = Raises("Timeout")
    /\ solves = 1

\* The sample passes the check of the loop: optimal energy and matching types.
Passes(rec) == rec.energy = Target /\ valid(translate(rec.sample, G2))

\* C10: once the first sample is at the optimal energy, find_equivalence examines
\* the samples in the order delivered: every sample before the last one examined
\* was at the optimal energy and failed the label check; it returns the mapping of
\* the first sample that is optimal and passes, returns None at the first sample
\* above the optimum (examining none after it), and returns None when the samples
\* end with none passing.
C10_ScanInOrder ==
    (op = "find_equivalence" /\ reply.kind = "sampleset" /\ first.energy = Target) =>
        LET k == Len(delivered) IN
        /\ pc \in {"scan", "done"}
        /\ k > 0 => delivered[1] = first
        /\ \A i \in 1..(k - 1) :
               delivered[i].energy = Target /\ ~Passes(delivered[i])
        /\ pc = "scan" =>
               /\ outcome = Pending
               /\ k > 0 => delivered[k].energy = Target /\ ~Passes(delivered[k])
        /\ pc = "done" =>
               /\ k > 0
               /\ IF exhausted
                  THEN /\ delivered[k].energy = Target
                       /\ ~Passes(delivered[k])
                       /\ outcome = ReturnNone
                  ELSE IF delivered[k].energy > Target
                  THEN outcome = ReturnNone
                  ELSE /\ Passes(delivered[k])
                       /\ outcome = ReturnMapping(translate(delivered[k].sample, G2))

C10_Witness ==
    /\ op = "find_equivalence"
    /\ pc = "done"
    /\ reply.kind = "sampleset"
    /\ ~reply.exact
    /\ Len(delivered) = 2
    /\ delivered[1].energy = Target
    /\ delivered[2].energy > Target
    /\ outcome = ReturnNone
    /\ ~exhausted

\* A device record: at least the four fields name drain gate source, on a line
\* that names a device type.
IsDeviceRecord(line) == Len(line) >= 4 /\ mentions_type(line)

\* C9: building a circuit from a netlist, every device record contributes exactly
\* the edges (name,drain), (name,gate), (name,source), and every other line, a
\* line naming a device type with fewer than four fields included, is ignored and
\* raises no error.
C9_UnrecognisedLinesIgnored ==
    op = "Circuit" =>
        /\ outcome.kind # "raise"
        /\ pc = "done" =>
               circuit.edges =
                   UNION {{{lines[i][1], lines[i][2]}, {lines[i][1], lines[i][3]},
                           {lines[i][1], lines[i][4]}} :
                              i \in {j \in DOMAIN lines : IsDeviceRecord(lines[j])}}

\* The weight of the edge-consistency family: B in equivalence.py, the literal 1
\* in isomorphism.py.
EdgeWeight == IF op = "create_dqm" THEN B ELSE 1

\* G1 nodes a, b (by position) taking the targets i, j pay for an edge mismatch:
\* the targets differ and exactly one of {a, b}, {i, j} is an edge of its graph.
EdgeMismatch(a, i, b, j) ==
    /\ i # j
    /\ ({G1.nodes[a], G1.nodes[b]} \in G1.edges)
           # ({G2.nodes[i + 1], G2.nodes[j + 1]} \in G2.edges)

\* What the construction specifies for the interaction of (a, i) and (b, j), a # b:
\* 2A when both take the same target, the edge weight for an edge mismatch.
Contribution(a, i, b, j) ==
    (IF i = j THEN 2 * A ELSE 0) + (IF EdgeMismatch(a, i, b, j) THEN EdgeWeight ELSE 0)

\* The pairs a < b of G1 nodes, by position.
NodePairs ==
    UNION {{<<a, b>> : b \in (a + 1)..Len(G1.nodes)} : a \in 1..Len(G1.nodes)}

\* Those of `pairs` that share a target under s.
Collisions(pairs, s) ==
    {p \in pairs : s[G1.nodes[p[1]]] = s[G1.nodes[p[2]]]}

\* Those of `pairs` that s maps with an edge mismatch.
Mismatches(pairs, s) ==
    {p \in pairs : EdgeMismatch(p[1], s[G1.nodes[p[1]]], p[2], s[G1.nodes[p[2]]])}

\* C11: in the model create_dqm builds (either module), the quadratic bias of
\* every pair of cases of two distinct variables equals the sum of what the
\* construction specifies for it (2A for a shared target, the edge weight for an
\* edge mismatch in either direction), read either way round, so no later
\* set_quadratic_case has overwritten an earlier contribution; and the energy of
\* every assignment is offset - A*n + 2A * (pairs sharing a target) + the edge
\* weight * (edge mismatches).
C11_BiasesAddUp ==
    (pc = "built" /\ op \in Creates) =>
        LET n == number_of_nodes(G1) IN
        /\ \A a, b \in 1..n : \A i, j \in 0..(n - 1) :
               a < b =>
                   /\ get_quadratic_case(dqm.quadratic, a, i, b, j) = Contribution(a, i, b, j)
                   /\ get_quadratic_case(dqm.quadratic, b, j, a, i) = Contribution(a, i, b, j)
        /\ LET pairs == NodePairs IN
           \A s \in Assignments(dqm) :
               Energy(dqm, s) = Target + 2 * A * Cardinality(Collisions(pairs, s))
                                       + EdgeWeight * Cardinality(Mismatches(pairs, s))

\* A model of three nodes in which one assignment pays for a shared target and
\* for an edge mismatch at once, and both edge loops have set biases.
C11_Witness ==
    /\ pc = "built"
    /\ op = "create_dqm"
    /\ number_of_nodes(G1) = 3
    /\ G1EdgeKeys(G1, G2, 3) # {}
    /\ G2EdgeKeys(G1, G2, 3) # {}
    /\ \E s \in Assignments(dqm) :
           /\ Cardinality(Collisions(NodePairs, s)) = 1
           /\ Cardinality(Mismatches(NodePairs, s)) = 1
           /\ Energy(dqm, s) = Target + 2 * A + B

====
